---- MODULE Spec2Model ----
(***************************************************************************)
(* FirebaseMessagingRequestHandler: the four operations that send requests *)
(* to the FCM backend, each a promise chain                                *)
(*     client.send(...).then(onFulfilled)[.then(...)].catch(onRejected).   *)
(* A call is a slot of the handler; its promise chain advances one         *)
(* callback at a time, so calls on one handler interleave at the promise   *)
(* boundaries exactly as the event loop lets them.                         *)
(***************************************************************************)
EXTENDS Integers, Sequences, FiniteSets, TLC

VARIABLES pc, op, client, requests, outcome, promise, tenant

vars == <<pc, op, client, requests, outcome, promise, tenant>>

\* ------------------------------------------------------------------ bounds

\* Longest list of sub-requests handed to sendBatchRequest.
MaxBatch == 3

\* Longest list of sub-requests of a call that runs beside another call.
MaxConcurrentBatch == 1

\* The calls made on the handler instance. Every action takes its call from
\* the domain of pc, so the calls of a behaviour are those Init gives it.
CallIds == {1}

\* Two calls in flight at once on the handler instance.
ConcurrentCallIds == {1, 2}

\* ------------------------------------------------------------ value shapes

\* JavaScript's undefined, for a field that is absent or holds undefined.
Undefined == "undefined"

\* Response bodies (RequestResponse.data): a parsed JSON object with an
\* optional name and an optional backend error code, the JSON value null,
\* or the raw text of a reply that is not JSON.
JsonObject(name, error) == [kind |-> "object", name |-> name, error |-> error]

JsonNull == [kind |-> "null", name |-> Undefined, error |-> Undefined]

RawText == [kind |-> "text", name |-> Undefined, error |-> Undefined]

NoBody == [kind |-> "none", name |-> Undefined, error |-> Undefined]

Response(status, data) == [status |-> status, data |-> data]

NoResponse == Response(0, NoBody)

\* The raw responses a transport client or the batch client may hand back.
Responses ==
    { Response(200, JsonObject("projects/p/messages/1", Undefined)),
      Response(200, JsonObject(Undefined, Undefined)),
      Response(200, JsonObject(Undefined, "INVALID_ARGUMENT")),
      Response(200, JsonNull),
      Response(200, RawText),
      Response(404, JsonObject(Undefined, "UNREGISTERED")),
      Response(500, RawText) }

\* Errors: a RequestResponseError wraps the response it was raised for, a
\* FirebaseError is an error in normalized form, a TypeError is what the
\* runtime raises on a property read of null.
NoError == [type |-> "none", code |-> Undefined, response |-> NoResponse]

RequestResponseError(response) ==
    [type |-> "RequestResponseError", code |-> Undefined, response |-> response]

FirebaseError(code) ==
    [type |-> "FirebaseError", code |-> code, response |-> NoResponse]

TypeError == [type |-> "TypeError", code |-> Undefined, response |-> NoResponse]

\* Errors a transport raises without a response: they are normalized already.
TransportErrors == { FirebaseError("network-error"), FirebaseError("network-timeout") }

IsNormalized(err) == err.type = "FirebaseError"

\* ------------------------------------------------- external collaborators

\* RequestResponse.isJson(): the body parsed as JSON.
isJson(response) == response.data.kind \in {"object", "null"}

\* getErrorCode(jsonBody): the backend error code embedded in a JSON object.
getErrorCode(data) == IF data.kind = "object" THEN data.error ELSE Undefined

\* The stable code of a backend error code.
ServerCode(code) ==
    CASE code = "INVALID_ARGUMENT" -> "invalid-argument"
      [] code = "UNREGISTERED" -> "unregistered"
      [] code = "RESOURCE_EXHAUSTED" -> "quota-exceeded"
      [] code = "INTERNAL" -> "internal"
      [] code = "UNAVAILABLE" -> "unavailable"
      [] OTHER -> "unknown"

\* The stable code an HTTP status falls back to.
StatusCode(status) ==
    CASE status = 400 -> "invalid-argument"
      [] status = 404 -> "unregistered"
      [] status = 429 -> "quota-exceeded"
      [] status = 500 -> "internal"
      [] status = 503 -> "unavailable"
      [] OTHER -> "unknown"

\* createFirebaseError(err): the normalized error of a RequestResponseError,
\* from the error code of its JSON body, or else from its HTTP status.
createFirebaseError(err) ==
    IF isJson(err.response) /\ getErrorCode(err.response.data) # Undefined
    THEN FirebaseError(ServerCode(getErrorCode(err.response.data)))
    ELSE FirebaseError(StatusCode(err.response.status))

\* ------------------------------------------------------- promise settlements

NoSendResponse == [success |-> FALSE, messageId |-> Undefined, error |-> NoError]

\* A promise: pending, or settled with a value of one kind or with an error.
Settled(state, kind) ==
    [state |-> state, kind |-> kind, raw |-> <<>>, data |-> NoBody,
     sendResponse |-> NoSendResponse, responses |-> <<>>,
     successCount |-> 0, failureCount |-> 0, error |-> NoError]

Pending == Settled("pending", "none")

Rejected(err) == [Settled("rejected", "error") EXCEPT !.error = err]

\* client.send resolved with raw responses (one, or one per sub-request).
FulfilledRaw(raw) == [Settled("fulfilled", "raw") EXCEPT !.raw = raw]

FulfilledData(data) == [Settled("fulfilled", "data") EXCEPT !.data = data]

FulfilledSendResponse(r) ==
    [Settled("fulfilled", "sendResponse") EXCEPT !.sendResponse = r]

FulfilledResponses(rs) ==
    [Settled("fulfilled", "responses") EXCEPT !.responses = rs]

FulfilledBatch(rs, successCount, failureCount) ==
    [Settled("fulfilled", "batchResponse") EXCEPT
        !.responses = rs, !.successCount = successCount,
        !.failureCount = failureCount]

\* ------------------------------------------------------------- the handler

\* What a callback does: it returns a value or it throws.
Return(value) == [threw |-> FALSE, value |-> value, error |-> NoError]

Throw(err) == [threw |-> TRUE, value |-> NoSendResponse, error |-> err]

\* response.data.name: undefined on an object without the field and on raw
\* text; the read of a property of null is the caller's TypeError.
NameOf(data) == IF data.kind = "object" THEN data.name ELSE Undefined

buildSendResponse(response) ==
    IF response.status = 200
    THEN IF response.data.kind = "null"
         THEN Throw(TypeError)
         ELSE Return([success |-> TRUE, messageId |-> NameOf(response.data),
                      error |-> NoError])
    ELSE Return([success |-> FALSE, messageId |-> Undefined,
                 error |-> createFirebaseError(RequestResponseError(response))])

buildSendResponseFromError(err) ==
    [success |-> FALSE, messageId |-> Undefined, error |-> createFirebaseError(err)]

\* The then callback without its isJson test.
invokeRequestHandlerOnFulfilledNoJsonTest(response) ==
    IF getErrorCode(response.data) # Undefined
    THEN Rejected(RequestResponseError(response))
    ELSE FulfilledData(response.data)

\* invokeRequestHandler, then(response => ...)
invokeRequestHandlerOnFulfilled(response) ==
    IF ~isJson(response)
    THEN Rejected(RequestResponseError(response))
    ELSE IF getErrorCode(response.data) # Undefined
         THEN Rejected(RequestResponseError(response))
         ELSE FulfilledData(response.data)

\* The catch callback classifying whatever it is given.
invokeRequestHandlerOnRejectedWrapsAll(err) == Rejected(createFirebaseError(err))

\* invokeRequestHandler, catch(err => ...)
invokeRequestHandlerOnRejected(err) ==
    IF err.type = "RequestResponseError"
    THEN Rejected(createFirebaseError(err))
    ELSE Rejected(err)

\* invokeHttpRequestHandlerForSendResponse, then(response => ...)
invokeHttpRequestHandlerForSendResponseOnFulfilled(response) ==
    LET built == buildSendResponse(response)
    IN  IF built.threw THEN Rejected(built.error)
        ELSE FulfilledSendResponse(built.value)

\* The catch callback turning every error into a failed SendResponse.
invokeHttpRequestHandlerForSendResponseOnRejectedSwallowsAll(err) ==
    FulfilledSendResponse(buildSendResponseFromError(err))

\* invokeHttpRequestHandlerForSendResponse, catch(err => ...)
invokeHttpRequestHandlerForSendResponseOnRejected(err) ==
    IF err.type = "RequestResponseError"
    THEN FulfilledSendResponse(buildSendResponseFromError(err))
    ELSE Rejected(err)

\* invokeHttp2RequestHandlerForSendResponse, then(response => ...)
invokeHttp2RequestHandlerForSendResponseOnFulfilled(response) ==
    LET built == buildSendResponse(response)
    IN  IF built.threw THEN Rejected(built.error)
        ELSE FulfilledSendResponse(built.value)

\* invokeHttp2RequestHandlerForSendResponse, catch(err => ...)
invokeHttp2RequestHandlerForSendResponseOnRejected(err) ==
    IF err.type = "RequestResponseError"
    THEN FulfilledSendResponse(buildSendResponseFromError(err))
    ELSE Rejected(err)

Min(S) == CHOOSE x \in S : \A y \in S : x <= y

\* sendBatchRequest, then(responses => responses.map(buildSendResponse)):
\* map calls buildSendResponse in index order and the first throw ends it.
sendBatchRequestMap(raw) ==
    LET built == [i \in 1..Len(raw) |-> buildSendResponse(raw[i])]
        thrown == {i \in 1..Len(raw) : built[i].threw}
    IN  IF thrown # {}
        THEN Rejected(built[Min(thrown)].error)
        ELSE FulfilledResponses([i \in 1..Len(raw) |-> built[i].value])

\* sendBatchRequest, then(responses => {responses, successCount, failureCount})
sendBatchRequestCount(responses) ==
    LET successCount ==
            Cardinality({i \in 1..Len(responses) : responses[i].success})
    IN  FulfilledBatch(responses, successCount, Len(responses) - successCount)

\* The catch callback handing back a promise that nothing ever settles.
sendBatchRequestOnRejectedNeverSettles(err) == Pending

\* The catch callback answering a failed batch with an empty BatchResponse.
sendBatchRequestOnRejectedEmptyBatch(err) == FulfilledBatch(<<>>, 0, 0)

\* sendBatchRequest, catch(err => ...)
sendBatchRequestOnRejected(err) ==
    IF err.type = "RequestResponseError"
    THEN Rejected(createFirebaseError(err))
    ELSE Rejected(err)

\* ------------------------------------------------------------------ tenant

\* A test phone number map, the value null, or no value at all.
PhoneMap(entries) == [kind |-> "map", entries |-> entries]

Null == [kind |-> "null", entries |-> {}]

NoValue == [kind |-> "undefined", entries |-> {}]

\* The values of testPhoneNumbers a caller may pass.
TestPhoneNumbers ==
    { NoValue, Null, PhoneMap({}),
      PhoneMap({<<"+16505551234", "123456">>}),
      PhoneMap({<<"not-a-phone-number", "123456">>}) }

\* The values of an option that a validator of auth-config accepts or not.
Configs == {Undefined, "valid", "invalid"}

\* The tenant options a caller may pass: the value null, or an object.
NullOptions ==
    [isObject |-> FALSE, unknownKey |-> FALSE, displayName |-> Undefined,
     emailSignInConfig |-> Undefined, anonymousSignInEnabled |-> Undefined,
     multiFactorConfig |-> Undefined, testPhoneNumbers |-> NoValue,
     smsRegionConfig |-> Undefined, recaptchaConfig |-> Undefined,
     passwordPolicyConfig |-> Undefined, emailPrivacyConfig |-> Undefined]

TenantOptions ==
    {NullOptions} \cup
    [isObject : {TRUE}, unknownKey : BOOLEAN,
     displayName : {Undefined, "tenant-1", ""},
     emailSignInConfig : Configs,
     anonymousSignInEnabled : {Undefined, "true", "false"},
     multiFactorConfig : Configs,
     testPhoneNumbers : TestPhoneNumbers,
     smsRegionConfig : Configs,
     recaptchaConfig : Configs,
     passwordPolicyConfig : Configs,
     emailPrivacyConfig : Configs]

NoAuthError == [code |-> "none", about |-> "none"]

\* new FirebaseAuthError(AuthClientErrorCode.INVALID_ARGUMENT, ...)
InvalidArgument(about) == [code |-> "invalid-argument", about |-> about]

\* The error a validator of auth-config throws; its code is its own.
ConfigError(about) == [code |-> "config-error", about |-> about]

\* validateTestPhoneNumbers: every key of the map is a phone number.
validateTestPhoneNumbers(phones) ==
    IF \A e \in phones.entries : e[1] = "+16505551234"
    THEN NoAuthError
    ELSE ConfigError("testPhoneNumbers")

\* The validators and builders of auth-config throw on an invalid option.
validateConfig(value, about) ==
    IF value = "invalid" THEN ConfigError(about) ELSE NoAuthError

\* The server form a builder of auth-config gives a valid option.
ServerConfig(value) == IF value = Undefined THEN Undefined ELSE "server-" \o value

\* The first error of a list of checks made in order, or none.
FirstError(errors) ==
    LET failed == {i \in 1..Len(errors) : errors[i] # NoAuthError}
    IN  IF failed = {} THEN NoAuthError ELSE errors[Min(failed)]

\* validate with the test on null for create requests left out.
validateWithoutNullTest(request, createRequest) ==
    IF ~request.isObject THEN InvalidArgument("request")
    ELSE FirstError(<<
        IF request.unknownKey THEN InvalidArgument("key") ELSE NoAuthError,
        IF request.displayName = "" THEN InvalidArgument("displayName")
        ELSE NoAuthError,
        validateConfig(request.emailSignInConfig, "emailSignInConfig"),
        IF request.testPhoneNumbers.kind = "map"
        THEN validateTestPhoneNumbers(request.testPhoneNumbers)
        ELSE NoAuthError,
        validateConfig(request.multiFactorConfig, "multiFactorConfig"),
        validateConfig(request.smsRegionConfig, "smsRegionConfig"),
        validateConfig(request.recaptchaConfig, "recaptchaConfig"),
        validateConfig(request.passwordPolicyConfig, "passwordPolicyConfig"),
        validateConfig(request.emailPrivacyConfig, "emailPrivacyConfig") >>)

\* Tenant.validate: the error it throws, or none.
validate(request, createRequest) ==
    IF ~request.isObject THEN InvalidArgument("request")
    ELSE FirstError(<<
        IF request.unknownKey THEN InvalidArgument("key") ELSE NoAuthError,
        IF request.displayName = "" THEN InvalidArgument("displayName")
        ELSE NoAuthError,
        validateConfig(request.emailSignInConfig, "emailSignInConfig"),
        IF request.testPhoneNumbers.kind = "map"
        THEN validateTestPhoneNumbers(request.testPhoneNumbers)
        ELSE IF request.testPhoneNumbers.kind = "null" /\ createRequest
             THEN InvalidArgument("testPhoneNumbers")
             ELSE NoAuthError,
        validateConfig(request.multiFactorConfig, "multiFactorConfig"),
        validateConfig(request.smsRegionConfig, "smsRegionConfig"),
        validateConfig(request.recaptchaConfig, "recaptchaConfig"),
        validateConfig(request.passwordPolicyConfig, "passwordPolicyConfig"),
        validateConfig(request.emailPrivacyConfig, "emailPrivacyConfig") >>)

\* A TenantOptionsServerRequest: a key that is not set holds no value.
NoRequest ==
    [built |-> FALSE, emailSignIn |-> Undefined, displayName |-> Undefined,
     enableAnonymousUser |-> Undefined, mfaConfig |-> Undefined,
     testPhoneNumbers |-> NoValue, smsRegionConfig |-> Undefined,
     recaptchaConfig |-> Undefined, passwordPolicyConfig |-> Undefined,
     emailPrivacyConfig |-> Undefined]

\* Tenant.buildServerRequest: it throws what validate throws, or returns the
\* request built from the options that are defined.
buildServerRequest(tenantOptions, createRequest) ==
    LET error == validate(tenantOptions, createRequest)
    IN  IF error # NoAuthError
        THEN [threw |-> TRUE, error |-> error, request |-> NoRequest]
        ELSE [threw |-> FALSE, error |-> NoAuthError,
              request |->
                [built |-> TRUE,
                 emailSignIn |-> ServerConfig(tenantOptions.emailSignInConfig),
                 displayName |-> tenantOptions.displayName,
                 enableAnonymousUser |-> tenantOptions.anonymousSignInEnabled,
                 mfaConfig |-> ServerConfig(tenantOptions.multiFactorConfig),
                 testPhoneNumbers |->
                     IF tenantOptions.testPhoneNumbers.kind = "null"
                     THEN PhoneMap({})
                     ELSE tenantOptions.testPhoneNumbers,
                 smsRegionConfig |-> tenantOptions.smsRegionConfig,
                 recaptchaConfig |-> ServerConfig(tenantOptions.recaptchaConfig),
                 passwordPolicyConfig |->
                     ServerConfig(tenantOptions.passwordPolicyConfig),
                 emailPrivacyConfig |-> tenantOptions.emailPrivacyConfig]]

\* A call of Tenant.buildServerRequest: its arguments and how it ended.
TenantCall(at, tenantOptions, createRequest, result) ==
    [pc |-> at, tenantOptions |-> tenantOptions, createRequest |-> createRequest,
     threw |-> result.threw, error |-> result.error, request |-> result.request]

NoResult == [threw |-> FALSE, error |-> NoAuthError, request |-> NoRequest]

NoTenantCall == TenantCall("none", NullOptions, FALSE, NoResult)

\* ------------------------------------------------------------------ actions

Init ==
    /\ pc = [c \in CallIds |-> "idle"]
    /\ op = [c \in CallIds |-> "none"]
    /\ client = [c \in CallIds |-> "none"]
    /\ requests = [c \in CallIds |-> <<>>]
    /\ outcome = [c \in CallIds |-> Pending]
    /\ promise = [c \in CallIds |-> Pending]
    /\ tenant = NoTenantCall

\* A call builds its request and hands it to one of the handler's clients.
Call(c, name, via, subRequests) ==
    /\ pc[c] = "idle"
    /\ pc' = [pc EXCEPT ![c] = "send"]
    /\ op' = [op EXCEPT ![c] = name]
    /\ client' = [client EXCEPT ![c] = via]
    /\ requests' = [requests EXCEPT ![c] = subRequests]
    /\ UNCHANGED <<outcome, promise, tenant>>

invokeRequestHandler(c) == Call(c, "invokeRequestHandler", "httpClient", <<>>)

invokeHttpRequestHandlerForSendResponse(c) ==
    Call(c, "invokeHttpRequestHandlerForSendResponse", "httpClient", <<>>)

invokeHttp2RequestHandlerForSendResponse(c) ==
    Call(c, "invokeHttp2RequestHandlerForSendResponse", "http2Client", <<>>)

sendBatchRequest(c) ==
    \E n \in 0..MaxBatch :
        Call(c, "sendBatchRequest", "batchClient", [i \in 1..n |-> i])

\* The ways a single request ends: a response, an error wrapping a response,
\* or a normalized error raised without any response.
SendOutcomes ==
    {FulfilledRaw(<<r>>) : r \in Responses}
        \cup {Rejected(RequestResponseError(r)) : r \in Responses}
        \cup {Rejected(e) : e \in TransportErrors}

\* The ways a batch of n sub-requests ends: n responses in the order of the
\* sub-requests, or a failure of the multipart request as a whole.
BatchOutcomes(n) ==
    {FulfilledRaw(raw) : raw \in [1..n -> Responses]}
        \cup {Rejected(RequestResponseError(r)) : r \in Responses}
        \cup {Rejected(e) : e \in TransportErrors}

\* The promise of client.send settles.
Settle(c, via, settled) ==
    /\ pc[c] = "send"
    /\ client[c] = via
    /\ outcome' = [outcome EXCEPT ![c] = settled]
    /\ promise' = [promise EXCEPT ![c] = settled]
    /\ pc' = [pc EXCEPT ![c] = "then"]
    /\ UNCHANGED <<op, client, requests, tenant>>

httpClientSend(c) == \E settled \in SendOutcomes : Settle(c, "httpClient", settled)

http2ClientSend(c) == \E settled \in SendOutcomes : Settle(c, "http2Client", settled)

batchClientSend(c) ==
    /\ pc[c] = "send"
    /\ client[c] = "batchClient"
    /\ \E settled \in BatchOutcomes(Len(requests[c])) : Settle(c, "batchClient", settled)

\* A link that keeps its settlement in a field of the handler, which every
\* call in flight then reads as its own.
StepSharedResult(c, name, from, to, settled) ==
    /\ op[c] = name
    /\ pc[c] = from
    /\ promise' = [d \in DOMAIN promise |-> IF pc[d] = "idle" THEN promise[d] ELSE settled]
    /\ pc' = [pc EXCEPT ![c] = to]
    /\ UNCHANGED <<op, client, requests, outcome, tenant>>

\* One link of a promise chain runs: the callback's settlement replaces the
\* promise, and the chain moves on to its next link.
Step(c, name, from, to, settled) ==
    /\ op[c] = name
    /\ pc[c] = from
    /\ promise' = [promise EXCEPT ![c] = settled]
    /\ pc' = [pc EXCEPT ![c] = to]
    /\ UNCHANGED <<op, client, requests, outcome, tenant>>

invokeRequestHandlerThen(c) ==
    Step(c, "invokeRequestHandler", "then", "catch",
         IF promise[c].state = "fulfilled"
         THEN invokeRequestHandlerOnFulfilled(promise[c].raw[1])
         ELSE promise[c])

invokeRequestHandlerCatch(c) ==
    Step(c, "invokeRequestHandler", "catch", "done",
         IF promise[c].state = "rejected"
         THEN invokeRequestHandlerOnRejected(promise[c].error)
         ELSE promise[c])

invokeHttpRequestHandlerForSendResponseThen(c) ==
    Step(c, "invokeHttpRequestHandlerForSendResponse", "then", "catch",
         IF promise[c].state = "fulfilled"
         THEN invokeHttpRequestHandlerForSendResponseOnFulfilled(promise[c].raw[1])
         ELSE promise[c])

invokeHttpRequestHandlerForSendResponseCatch(c) ==
    Step(c, "invokeHttpRequestHandlerForSendResponse", "catch", "done",
         IF promise[c].state = "rejected"
         THEN invokeHttpRequestHandlerForSendResponseOnRejected(promise[c].error)
         ELSE promise[c])

invokeHttp2RequestHandlerForSendResponseThen(c) ==
    Step(c, "invokeHttp2RequestHandlerForSendResponse", "then", "catch",
         IF promise[c].state = "fulfilled"
         THEN invokeHttp2RequestHandlerForSendResponseOnFulfilled(promise[c].raw[1])
         ELSE promise[c])

invokeHttp2RequestHandlerForSendResponseCatch(c) ==
    Step(c, "invokeHttp2RequestHandlerForSendResponse", "catch", "done",
         IF promise[c].state = "rejected"
         THEN invokeHttp2RequestHandlerForSendResponseOnRejected(promise[c].error)
         ELSE promise[c])

sendBatchRequestThenMap(c) ==
    Step(c, "sendBatchRequest", "then", "then2",
         IF promise[c].state = "fulfilled"
         THEN sendBatchRequestMap(promise[c].raw)
         ELSE promise[c])

sendBatchRequestThenCount(c) ==
    Step(c, "sendBatchRequest", "then2", "catch",
         IF promise[c].state = "fulfilled"
         THEN sendBatchRequestCount(promise[c].responses)
         ELSE promise[c])

sendBatchRequestCatch(c) ==
    Step(c, "sendBatchRequest", "catch", "done",
         IF promise[c].state = "rejected"
         THEN sendBatchRequestOnRejected(promise[c].error)
         ELSE promise[c])

Next ==
    \/ \E c \in DOMAIN pc : invokeRequestHandler(c)
    \/ \E c \in DOMAIN pc : invokeHttpRequestHandlerForSendResponse(c)
    \/ \E c \in DOMAIN pc : invokeHttp2RequestHandlerForSendResponse(c)
    \/ \E c \in DOMAIN pc : sendBatchRequest(c)
    \/ \E c \in DOMAIN pc : httpClientSend(c)
    \/ \E c \in DOMAIN pc : http2ClientSend(c)
    \/ \E c \in DOMAIN pc : batchClientSend(c)
    \/ \E c \in DOMAIN pc : invokeRequestHandlerThen(c)
    \/ \E c \in DOMAIN pc : invokeRequestHandlerCatch(c)
    \/ \E c \in DOMAIN pc : invokeHttpRequestHandlerForSendResponseThen(c)
    \/ \E c \in DOMAIN pc : invokeHttpRequestHandlerForSendResponseCatch(c)
    \/ \E c \in DOMAIN pc : invokeHttp2RequestHandlerForSendResponseThen(c)
    \/ \E c \in DOMAIN pc : invokeHttp2RequestHandlerForSendResponseCatch(c)
    \/ \E c \in DOMAIN pc : sendBatchRequestThenMap(c)
    \/ \E c \in DOMAIN pc : sendBatchRequestThenCount(c)
    \/ \E c \in DOMAIN pc : sendBatchRequestCatch(c)

Spec == Init /\ [][Next]_vars

\* The steps call c is owed once it is made: its transport call settles (the
\* premise under which settling is claimed) and the event loop runs each
\* callback of a settled promise.
Progress(c) ==
    \/ pc[c] = "send" /\ httpClientSend(c)
    \/ pc[c] = "send" /\ http2ClientSend(c)
    \/ pc[c] = "send" /\ batchClientSend(c)
    \/ invokeRequestHandlerThen(c)
    \/ invokeRequestHandlerCatch(c)
    \/ invokeHttpRequestHandlerForSendResponseThen(c)
    \/ invokeHttpRequestHandlerForSendResponseCatch(c)
    \/ invokeHttp2RequestHandlerForSendResponseThen(c)
    \/ invokeHttp2RequestHandlerForSendResponseCatch(c)
    \/ sendBatchRequestThenMap(c)
    \/ sendBatchRequestThenCount(c)
    \/ sendBatchRequestCatch(c)

FairSpec == Spec /\ \A c \in CallIds : WF_vars(Progress(c))

\* ------------------------------------------------------------ tenant calls

TenantInit ==
    /\ pc = [c \in CallIds |-> "idle"]
    /\ op = [c \in CallIds |-> "none"]
    /\ client = [c \in CallIds |-> "none"]
    /\ requests = [c \in CallIds |-> <<>>]
    /\ outcome = [c \in CallIds |-> Pending]
    /\ promise = [c \in CallIds |-> Pending]
    /\ \E tenantOptions \in TenantOptions, createRequest \in BOOLEAN :
           tenant = TenantCall("called", tenantOptions, createRequest, NoResult)

\* Tenant.buildServerRequest runs on the arguments of the call.
TenantBuildServerRequest ==
    /\ tenant.pc = "called"
    /\ tenant' = TenantCall("done", tenant.tenantOptions, tenant.createRequest,
                     buildServerRequest(tenant.tenantOptions, tenant.createRequest))
    /\ UNCHANGED <<pc, op, client, requests, outcome, promise>>

TenantNext == TenantBuildServerRequest

TenantSpec == TenantInit /\ [][TenantNext]_vars

\* ------------------------------------------------------- concurrent calls

ConcurrentInit ==
    /\ pc = [c \in ConcurrentCallIds |-> "idle"]
    /\ op = [c \in ConcurrentCallIds |-> "none"]
    /\ client = [c \in ConcurrentCallIds |-> "none"]
    /\ requests = [c \in ConcurrentCallIds |-> <<>>]
    /\ outcome = [c \in ConcurrentCallIds |-> Pending]
    /\ promise = [c \in ConcurrentCallIds |-> Pending]
    /\ tenant = NoTenantCall

sendBatchRequestConcurrently(c) ==
    \E n \in 0..MaxConcurrentBatch :
        Call(c, "sendBatchRequest", "batchClient", [i \in 1..n |-> i])

\* The calls of the handler, any of them taking its next step while the
\* others wait on their transport or on the event loop.
ConcurrentNext ==
    \/ \E c \in DOMAIN pc : invokeRequestHandler(c)
    \/ \E c \in DOMAIN pc : invokeHttpRequestHandlerForSendResponse(c)
    \/ \E c \in DOMAIN pc : invokeHttp2RequestHandlerForSendResponse(c)
    \/ \E c \in DOMAIN pc : sendBatchRequestConcurrently(c)
    \/ \E c \in DOMAIN pc : httpClientSend(c)
    \/ \E c \in DOMAIN pc : http2ClientSend(c)
    \/ \E c \in DOMAIN pc : batchClientSend(c)
    \/ \E c \in DOMAIN pc : invokeRequestHandlerThen(c)
    \/ \E c \in DOMAIN pc : invokeRequestHandlerCatch(c)
    \/ \E c \in DOMAIN pc : invokeHttpRequestHandlerForSendResponseThen(c)
    \/ \E c \in DOMAIN pc : invokeHttpRequestHandlerForSendResponseCatch(c)
    \/ \E c \in DOMAIN pc : invokeHttp2RequestHandlerForSendResponseThen(c)
    \/ \E c \in DOMAIN pc : invokeHttp2RequestHandlerForSendResponseCatch(c)
    \/ \E c \in DOMAIN pc : sendBatchRequestThenMap(c)
    \/ \E c \in DOMAIN pc : sendBatchRequestThenCount(c)
    \/ \E c \in DOMAIN pc : sendBatchRequestCatch(c)

ConcurrentSpec == ConcurrentInit /\ [][ConcurrentNext]_vars

\* ------------------------------------------------------------------ claims

SendOps ==
    {"invokeHttpRequestHandlerForSendResponse",
     "invokeHttp2RequestHandlerForSendResponse"}

\* The returned promise of call c has settled.
Done(c) == pc[c] = "done"

\* client.send of call c resolved (with a response or a list of them).
Answered(c) == outcome[c].state = "fulfilled"

\* client.send of call c rejected.
Failed(c) == outcome[c].state = "rejected"

Count(raw, status) == Cardinality({i \in 1..Len(raw) : raw[i].status = status})

\* C1: whenever the batch client returns N raw responses of which K have
\* status 200, sendBatchRequest resolves to a BatchResponse with N responses
\* in the order of the raw ones, responses[i].success telling whether the
\* i-th status is 200, successCount = K and failureCount = N - K.
C1_BatchResponseCounts ==
    \A c \in DOMAIN pc :
        (op[c] = "sendBatchRequest" /\ Done(c) /\ Answered(c)) =>
            LET raw == outcome[c].raw
                N == Len(requests[c])
                K == Count(raw, 200)
            IN  /\ promise[c].state = "fulfilled"
                /\ promise[c].kind = "batchResponse"
                /\ Len(promise[c].responses) = N
                /\ \A i \in 1..N :
                       promise[c].responses[i].success = (raw[i].status = 200)
                /\ promise[c].successCount = K
                /\ promise[c].failureCount = N - K
                /\ promise[c].successCount + promise[c].failureCount
                       = Len(promise[c].responses)

\* The SendResponse the single-send contract gives for a transport outcome,
\* whichever of the two clients carried the request.
ContractSendResponse(settled) ==
    IF settled.state = "fulfilled"
    THEN IF settled.raw[1].status = 200
         THEN [success |-> TRUE, messageId |-> NameOf(settled.raw[1].data),
               error |-> NoError]
         ELSE [success |-> FALSE, messageId |-> Undefined,
               error |-> createFirebaseError(RequestResponseError(settled.raw[1]))]
    ELSE [success |-> FALSE, messageId |-> Undefined,
          error |-> createFirebaseError(settled.error)]

\* C2: in both single-send operations a response with status 200 yields
\* success with the body's name as messageId, and any other status, or an
\* error wrapping a response, yields a failure carrying the classifier's
\* error; the result depends on the transport outcome alone, not on which
\* of the two operations ran.
C2_SendResponseOfOutcome ==
    \A c \in DOMAIN pc :
        (op[c] \in SendOps /\ Done(c)
            /\ (Answered(c) \/ outcome[c].error.type = "RequestResponseError")) =>
            /\ promise[c].state = "fulfilled"
            /\ promise[c].kind = "sendResponse"
            /\ promise[c].sendResponse = ContractSendResponse(outcome[c])

\* Exactly one of messageId and error is defined, as success tells.
ExactlyOne(r) ==
    IF r.success
    THEN r.messageId # Undefined /\ r.error = NoError
    ELSE r.error # NoError /\ r.messageId = Undefined

\* C3: every SendResponse an operation resolves with, alone or as an
\* element of a BatchResponse, has messageId defined and no error when
\* success is true, and error defined and no messageId when it is false.
C3_ExactlyOneOfMessageIdAndError ==
    \A c \in DOMAIN pc :
        (Done(c) /\ promise[c].state = "fulfilled") =>
            /\ promise[c].kind = "sendResponse" => ExactlyOne(promise[c].sendResponse)
            /\ promise[c].kind = "batchResponse" =>
                   \A i \in 1..Len(promise[c].responses) :
                       ExactlyOne(promise[c].responses[i])

C5_ItemFailureStaysInItem ==
    \A c \in DOMAIN pc :
        (op[c] = "sendBatchRequest" /\ Done(c) /\ Answered(c)) =>
            /\ promise[c].state = "fulfilled"
            /\ \A i \in 1..Len(promise[c].responses) :
                   outcome[c].raw[i].status # 200 =>
                       /\ ~promise[c].responses[i].success
                       /\ promise[c].responses[i].error # NoError

\* C6: once the batch client's call has failed, the promise of
\* sendBatchRequest is rejected with one error at every later link of the
\* chain: it never holds a BatchResponse nor any list of responses.
C6_EncoderFailureRejects ==
    \A c \in DOMAIN pc :
        (op[c] = "sendBatchRequest" /\ Failed(c)) =>
            /\ promise[c].state = "rejected"
            /\ promise[c].kind = "error"
            /\ promise[c].error # NoError
            /\ promise[c].responses = <<>>

\* A batch of at least one sub-request whose multipart request failed.
C6_Witness ==
    \E c \in DOMAIN pc :
        /\ op[c] = "sendBatchRequest" /\ Done(c) /\ Failed(c)
        /\ Len(requests[c]) > 0
        /\ promise[c].state = "rejected"

\* C7: invokeRequestHandler resolves exactly when the transport returns a
\* response that is JSON and in which getErrorCode finds no code, and then
\* with that response's data; a response that is not JSON or carries a code
\* rejects with the error the classifier derives from that response.
C7_ResolvesIffJsonWithoutErrorCode ==
    \A c \in DOMAIN pc :
        (op[c] = "invokeRequestHandler" /\ Done(c)) =>
            LET good == /\ Answered(c)
                        /\ isJson(outcome[c].raw[1])
                        /\ getErrorCode(outcome[c].raw[1].data) = Undefined
            IN  /\ (promise[c].state = "fulfilled") <=> good
                /\ good => /\ promise[c].kind = "data"
                           /\ promise[c].data = outcome[c].raw[1].data
                /\ (Answered(c) /\ ~good) =>
                       /\ promise[c].state = "rejected"
                       /\ promise[c].error =
                              createFirebaseError(RequestResponseError(outcome[c].raw[1]))

\* invokeRequestHandler has rejected a status-200 reply that is not JSON.
C7_Witness ==
    \E c \in DOMAIN pc :
        /\ op[c] = "invokeRequestHandler" /\ Done(c) /\ Answered(c)
        /\ outcome[c].raw[1] = Response(200, RawText)
        /\ promise[c].state = "rejected"

\* C8: in each of the four operations every error the returned promise is
\* rejected with is a normalized error.
C8_RejectsOnlyNormalized ==
    \A c \in DOMAIN pc :
        (Done(c) /\ promise[c].state = "rejected") => IsNormalized(promise[c].error)

\* C9: in all four operations, when the transport or the batch client fails
\* with an error that is normalized already, every link of the chain passes
\* that same error on and the returned promise is rejected with it.
C9_NormalizedErrorPassesThrough ==
    \A c \in DOMAIN pc :
        (Failed(c) /\ IsNormalized(outcome[c].error)) =>
            /\ promise[c].state = "rejected"
            /\ promise[c].error = outcome[c].error

\* The handler's catch has run on an error that was normalized already.
C9_Witness ==
    \E c \in DOMAIN pc :
        /\ op[c] = "invokeRequestHandler" /\ Done(c) /\ Failed(c)
        /\ outcome[c].error = FirebaseError("network-timeout")
        /\ promise[c].error = FirebaseError("network-timeout")

\* A status-200 reply that is not JSON or gives no name.
Malformed(response) ==
    response.status = 200
        /\ (~isJson(response) \/ NameOf(response.data) = Undefined)

FailedNormalized(r) == ~r.success /\ IsNormalized(r.error)

\* C10: a status-200 reply that is not JSON or lacks the name field is a
\* failure in every operation: the single-send operations and the batch's
\* per-item mapping give success false with a normalized error, and
\* invokeRequestHandler rejects with a normalized error.
C10_MalformedSuccessIsFailure ==
    \A c \in DOMAIN pc :
        (Done(c) /\ Answered(c)) =>
            /\ (op[c] \in SendOps /\ Malformed(outcome[c].raw[1])) =>
                   /\ promise[c].state = "fulfilled"
                   /\ FailedNormalized(promise[c].sendResponse)
            /\ op[c] = "sendBatchRequest" =>
                   \A i \in 1..Len(outcome[c].raw) :
                       Malformed(outcome[c].raw[i]) =>
                           /\ promise[c].state = "fulfilled"
                           /\ FailedNormalized(promise[c].responses[i])
            /\ (op[c] = "invokeRequestHandler" /\ Malformed(outcome[c].raw[1])) =>
                   /\ promise[c].state = "rejected"
                   /\ IsNormalized(promise[c].error)

\* What a then callback makes of a promise: it runs on a fulfilled one only.
ThenOf(name, p) ==
    IF p.state # "fulfilled" THEN p
    ELSE CASE name = "invokeRequestHandler" ->
                  invokeRequestHandlerOnFulfilled(p.raw[1])
           [] name = "invokeHttpRequestHandlerForSendResponse" ->
                  invokeHttpRequestHandlerForSendResponseOnFulfilled(p.raw[1])
           [] name = "invokeHttp2RequestHandlerForSendResponse" ->
                  invokeHttp2RequestHandlerForSendResponseOnFulfilled(p.raw[1])
           [] OTHER -> sendBatchRequestMap(p.raw)

Then2Of(name, p) ==
    IF p.state = "fulfilled" /\ name = "sendBatchRequest"
    THEN sendBatchRequestCount(p.responses)
    ELSE p

\* What a catch callback makes of a promise: it runs on a rejected one only.
CatchOf(name, p) ==
    IF p.state # "rejected" THEN p
    ELSE CASE name = "invokeRequestHandler" ->
                  invokeRequestHandlerOnRejected(p.error)
           [] name = "invokeHttpRequestHandlerForSendResponse" ->
                  invokeHttpRequestHandlerForSendResponseOnRejected(p.error)
           [] name = "invokeHttp2RequestHandlerForSendResponse" ->
                  invokeHttp2RequestHandlerForSendResponseOnRejected(p.error)
           [] OTHER -> sendBatchRequestOnRejected(p.error)

\* The promise a call of operation name holds at link at of its chain when it
\* runs alone and its client.send settled as settled.
AloneAt(name, at, settled) ==
    CASE at \in {"idle", "send"} -> Pending
      [] at = "then" -> settled
      [] at = "then2" -> ThenOf(name, settled)
      [] at = "catch" -> Then2Of(name, ThenOf(name, settled))
      [] OTHER -> CatchOf(name, Then2Of(name, ThenOf(name, settled)))

\* C11: calls in flight together on one handler do not interact: in every
\* interleaving of their steps each call's promise is, at every link of its
\* chain, the one it would hold had it run alone on its own raw responses,
\* and a BatchResponse has the length of the call's own list of sub-requests.
C11_ConcurrentCallsDoNotInteract ==
    \A c \in DOMAIN pc :
        /\ promise[c] = AloneAt(op[c], pc[c], outcome[c])
        /\ pc[c] \in {"idle", "send"} => outcome[c] = Pending
        /\ (op[c] = "sendBatchRequest" /\ promise[c].kind = "batchResponse") =>
               /\ Len(promise[c].responses) = Len(requests[c])
               /\ promise[c].successCount = Count(outcome[c].raw, 200)

\* Two batches were in flight together and ended differently: one resolved
\* with its one success, the other with its one failure.
C11_Witness ==
    /\ DOMAIN pc = ConcurrentCallIds
    /\ \A c \in DOMAIN pc : op[c] = "sendBatchRequest" /\ Done(c)
    /\ promise[1].kind = "batchResponse" /\ promise[1].successCount = 1
    /\ promise[2].kind = "batchResponse" /\ promise[2].failureCount = 1

\* The state of the promise an operation returned: that of the last link of
\* its chain, pending until the chain has run to its end.
ReturnedState(c) == IF Done(c) THEN promise[c].state ELSE "pending"

\* The value kind each operation resolves with.
ResultKind(name) ==
    CASE name = "invokeRequestHandler" -> "data"
      [] name = "sendBatchRequest" -> "batchResponse"
      [] OTHER -> "sendResponse"

\* C12: once its transport or encoder call settles, every invocation settles
\* exactly once: its promise eventually resolves with a complete result or
\* rejects with one error, never both and never neither, it does not change
\* after that, and a batch holds per-item results only when the encoder's
\* whole response list, one response per sub-request, is there.
C12_SettlesExactlyOnce ==
    /\ \A c \in CallIds :
           (pc[c] = "send") ~> (ReturnedState(c) \in {"fulfilled", "rejected"})
    /\ [](\A c \in CallIds :
             /\ Done(c) =>
                    \/ /\ promise[c].state = "fulfilled"
                       /\ promise[c].kind = ResultKind(op[c])
                       /\ promise[c].error = NoError
                    \/ /\ promise[c].state = "rejected"
                       /\ promise[c].kind = "error"
                       /\ promise[c].error # NoError
             /\ (op[c] = "sendBatchRequest"
                    /\ promise[c].kind \in {"responses", "batchResponse"}) =>
                    /\ outcome[c].state = "fulfilled"
                    /\ Len(outcome[c].raw) = Len(requests[c])
                    /\ Len(promise[c].responses) = Len(requests[c]))
    /\ [][\A c \in CallIds :
             Done(c) => (pc'[c] = pc[c] /\ promise'[c] = promise[c])]_vars

\* A batch of several sub-requests, one of them failed, has resolved.
C12_Witness ==
    \E c \in DOMAIN pc :
        /\ op[c] = "sendBatchRequest" /\ Done(c)
        /\ Len(requests[c]) >= 2
        /\ promise[c].kind = "batchResponse"
        /\ promise[c].failureCount >= 1

\* The checks validate makes before it comes to testPhoneNumbers all pass.
EarlierChecksPass(o) ==
    /\ o.isObject
    /\ ~o.unknownKey
    /\ o.displayName # ""
    /\ o.emailSignInConfig # "invalid"

\* Every option other than testPhoneNumbers is one validate accepts.
OtherOptionsValid(o) ==
    /\ EarlierChecksPass(o)
    /\ o.multiFactorConfig # "invalid"
    /\ o.smsRegionConfig # "invalid"
    /\ o.recaptchaConfig # "invalid"
    /\ o.passwordPolicyConfig # "invalid"
    /\ o.emailPrivacyConfig # "invalid"

\* C13: Tenant.buildServerRequest validates before it builds (a call that
\* throws returns no request, and options validate rejects always throw);
\* testPhoneNumbers == null makes a create request throw an invalid-argument
\* error, and is the empty object in the request an update returns; with
\* testPhoneNumbers undefined the returned request has no testPhoneNumbers
\* key, for a create and for an update request.
C13_NullTestPhoneNumbersByRequestKind ==
    tenant.pc = "done" =>
        LET o == tenant.tenantOptions
            phones == o.testPhoneNumbers
        IN  /\ tenant.threw <=> ~tenant.request.built
            /\ tenant.threw => (tenant.error # NoAuthError /\ tenant.request = NoRequest)
            /\ ~OtherOptionsValid(o) => tenant.threw
            /\ (phones = Null /\ tenant.createRequest) =>
                   /\ tenant.threw
                   /\ tenant.request = NoRequest
                   /\ EarlierChecksPass(o) =>
                          tenant.error = InvalidArgument("testPhoneNumbers")
            /\ (phones = Null /\ ~tenant.createRequest) =>
                   /\ tenant.threw <=> ~OtherOptionsValid(o)
                   /\ ~tenant.threw => tenant.request.testPhoneNumbers = PhoneMap({})
            /\ phones = NoValue =>
                   /\ tenant.threw <=> ~OtherOptionsValid(o)
                   /\ ~tenant.threw => tenant.request.testPhoneNumbers = NoValue

\* A create request with testPhoneNumbers null, valid in all else, was thrown
\* out for its testPhoneNumbers.
C13_Witness ==
    /\ tenant.pc = "done"
    /\ tenant.createRequest
    /\ tenant.tenantOptions.testPhoneNumbers = Null
    /\ tenant.tenantOptions.displayName = "tenant-1"
    /\ OtherOptionsValid(tenant.tenantOptions)
    /\ tenant.threw
    /\ tenant.error = InvalidArgument("testPhoneNumbers")

====
